---- MODULE Spec2Model ----
(***************************************************************************)
(* Validation schemas of src/src/jwt.ts: the login request/response        *)
(* schemas, their JSON-string variants, createErrorResponse, and the coin   *)
(* creation request and confirmation schemas.                               *)
(*                                                                          *)
(* Every operation is a pure function of its input.  The state is one call: *)
(* whether it has returned (pc), which schema or helper is called (op),     *)
(* what it is given (input), what it returns (result), whether the object   *)
(* schema's parse ran (ranObject), and, when the text handed to a string    *)
(* schema was produced by JSON.stringify, the object it was produced from   *)
(* (origin).                                                                *)
(***************************************************************************)
EXTENDS Integers, Sequences, FiniteSets, TLC

VARIABLES pc, op, input, result, ranObject, origin

vars == <<pc, op, input, result, ranObject, origin>>

(***************************************************************************)
(* Bounds of the model.                                                     *)
(***************************************************************************)
\* Longest freely enumerated token sequence handed to a string schema.
MaxTextLen == 4
\* Longest freely enumerated range / price string of a bonding-curve step.
MaxStrLen == 3
\* Longest bonding_curve_steps list.
MaxSteps == 2

(***************************************************************************)
(* JavaScript values.  One record shape for all of them:                    *)
(*   kind  "undefined" | "null" | "boolean" | "number" | "nan" |            *)
(*         "infinity" | "string" | "object" | "array"                       *)
(*   str   the characters of a string: a TLA+ string, or a tuple of         *)
(*         one-character strings where a pattern reads the characters       *)
(*   num   floor of a number (1 / 0 for true / false)                       *)
(*   frac  tenths of a number's fractional part, 0..9                       *)
(*   obj   the fields of an object (key -> value), the elements of an array *)
(***************************************************************************)
NoFields == <<>>

Prim(k, s, n, f) == [kind |-> k, str |-> s, num |-> n, frac |-> f, obj |-> NoFields]

Undefined == Prim("undefined", "", 0, 0)

Null == Prim("null", "", 0, 0)

NaN == Prim("nan", "", 0, 0)

Infinity == Prim("infinity", "", 0, 0)

Bool(b) == Prim("boolean", "", IF b THEN 1 ELSE 0, 0)

Num(n) == Prim("number", "", n, 0)

Frac(n, f) == Prim("number", "", n, f)

Str(s) == Prim("string", s, 0, 0)

Obj(f) == [kind |-> "object", str |-> "", num |-> 0, frac |-> 0, obj |-> f]

Arr(s) == [kind |-> "array", str |-> "", num |-> 0, frac |-> 0, obj |-> s]

\* data[key]: undefined when the key is absent or data is no object.
Get(v, k) == IF v.kind = "object" /\ k \in DOMAIN v.obj THEN v.obj[k] ELSE Undefined

\* key in data
Has(v, k) == v.kind = "object" /\ k \in DOMAIN v.obj

\* JavaScript ToBoolean, as "if (x)" and "!x" apply it.
Truthy(v) ==
    CASE v.kind \in {"undefined", "null", "nan"} -> FALSE
      [] v.kind = "boolean" -> v.num = 1
      [] v.kind = "number" -> ~(v.num = 0 /\ v.frac = 0)
      [] v.kind = "string" -> Len(v.str) > 0
      [] OTHER -> TRUE

(***************************************************************************)
(* JSON text.  A text is a sequence of tokens: the four structural          *)
(* characters of an object, a literal carrying its value (string, number,   *)
(* true, false, null), and "junk" for anything JSON has no token for.       *)
(***************************************************************************)
Tok(t, v) == [tok |-> t, val |-> v]

LBrace == Tok("lbrace", Undefined)

RBrace == Tok("rbrace", Undefined)

Colon == Tok("colon", Undefined)

Comma == Tok("comma", Undefined)

Junk == Tok("junk", Undefined)

Lit(v) == Tok("lit", v)

PFail == [ok |-> FALSE, val |-> Undefined, next |-> 0]

RECURSIVE ParseValue(_, _), ParseMembers(_, _, _)

\* One JSON value starting at token i; next is the first token after it.
ParseValue(t, i) ==
    IF i > Len(t) THEN PFail
    ELSE IF t[i].tok = "lit" THEN [ok |-> TRUE, val |-> t[i].val, next |-> i + 1]
    ELSE IF t[i].tok = "lbrace"
         THEN IF i + 1 <= Len(t) /\ t[i + 1].tok = "rbrace"
              THEN [ok |-> TRUE, val |-> Obj(NoFields), next |-> i + 2]
              ELSE ParseMembers(t, i + 1, NoFields)
    ELSE PFail

\* "key": value pairs separated by commas, up to the closing brace; a repeated
\* key keeps its last value.
ParseMembers(t, i, acc) ==
    IF i + 1 > Len(t) THEN PFail
    ELSE IF t[i].tok # "lit" \/ t[i + 1].tok # "colon" THEN PFail
    ELSE IF t[i].val.kind # "string" THEN PFail
    ELSE LET r == ParseValue(t, i + 2)
             acc2 == (t[i].val.str :> r.val) @@ acc
         IN  IF ~r.ok \/ r.next > Len(t) THEN PFail
             ELSE IF t[r.next].tok = "rbrace"
                  THEN [ok |-> TRUE, val |-> Obj(acc2), next |-> r.next + 1]
             ELSE IF t[r.next].tok = "comma" THEN ParseMembers(t, r.next + 1, acc2)
             ELSE PFail

\* JSON.parse(str): ok = FALSE stands for the SyntaxError it throws.
JSONParse(t) ==
    LET r == ParseValue(t, 1)
    IN  IF r.ok /\ r.next = Len(t) + 1
        THEN [ok |-> TRUE, val |-> r.val]
        ELSE [ok |-> FALSE, val |-> Undefined]

\* The order in which an object's own keys are written out.
KeyOrder == <<"message", "signature", "token", "error", "details", "extra", "inner">>

RECURSIVE JSONStringify(_), StringifyMembers(_, _, _)

\* JSON.stringify(v) for a v that has a JSON text: NaN and Infinity are
\* written as null, an object's keys holding undefined are left out.
JSONStringify(v) ==
    CASE v.kind \in {"nan", "infinity"} -> <<Lit(Null)>>
      [] v.kind = "object" ->
            <<LBrace>> \o StringifyMembers(v.obj, KeyOrder, TRUE) \o <<RBrace>>
      [] OTHER -> <<Lit(v)>>

StringifyMembers(f, keys, first) ==
    IF keys = <<>> THEN <<>>
    ELSE LET k == Head(keys)
         IN  IF k \in DOMAIN f /\ f[k].kind # "undefined"
             THEN (IF first THEN <<>> ELSE <<Comma>>)
                  \o <<Lit(Str(k)), Colon>> \o JSONStringify(f[k])
                  \o StringifyMembers(f, Tail(keys), FALSE)
             ELSE StringifyMembers(f, Tail(keys), first)

(***************************************************************************)
(* zod parse results.  A schema's _parse returns a status ("valid",         *)
(* "dirty": a check failed; "aborted": the value has the wrong type) and    *)
(* adds its issues to the context; an issue is a path and a code.           *)
(***************************************************************************)
Issue(path, code) == [path |-> path, code |-> code]

OK(v) == [status |-> "valid", value |-> v, issues |-> <<>>]

INVALID(path, code) ==
    [status |-> "aborted", value |-> Undefined, issues |-> <<Issue(path, code)>>]

\* One check of a string or number schema: a failed check adds its issue and
\* makes the result dirty; the remaining checks still run.
Check(r, passes, path, code) ==
    IF r.status = "aborted" \/ passes THEN r
    ELSE [r EXCEPT !.status = "dirty", !.issues = Append(@, Issue(path, code))]

\* z.string()
ZodString(v, path) ==
    IF v.kind = "string" THEN OK(v) ELSE INVALID(path, "invalid_type")

\* z.number(): NaN is not a number to zod.
ZodNumber(v, path) ==
    IF v.kind \in {"number", "infinity"} THEN OK(v) ELSE INVALID(path, "invalid_type")

\* z.boolean()
ZodBoolean(v, path) ==
    IF v.kind = "boolean" THEN OK(v) ELSE INVALID(path, "invalid_type")

\* z.unknown()
ZodUnknown(v) == OK(v)

\* .optional(): undefined is accepted as it is, anything else goes to the
\* inner schema, whose result r is.
ZodOptional(v, r) == IF v.kind = "undefined" THEN OK(Undefined) ELSE r

RECURSIVE ConcatIssues(_, _)

\* The issues of the fields, in the order of the shape's keys.
ConcatIssues(fr, keys) ==
    IF keys = <<>> THEN <<>>
    ELSE fr[Head(keys)].issues \o ConcatIssues(fr, Tail(keys))

Range(s) == {s[i] : i \in DOMAIN s}

RECURSIVE FirstIssues(_, _)

\* As ParseAllKeys, but fail-fast: the walk stops at the first field that has
\* issues.
FirstIssues(fr, keys) ==
    IF keys = <<>> THEN <<>>
    ELSE IF fr[Head(keys)].issues # <<>> THEN fr[Head(keys)].issues
    ELSE FirstIssues(fr, Tail(keys))

\* The walk over a shape's fields: zod parses every key of the shape, so fr, the
\* fields' results, all contribute their issues.
ParseAllKeys(fr, shape) == ConcatIssues(fr, shape)

\* z.object(shape), given the results fr of parsing data[key] for every key of
\* the shape.  Unknown keys are stripped; a key of the shape is kept when the
\* input has it or its parsed value is defined.
ZodObject(v, path, shape, fr) ==
    IF v.kind # "object" THEN INVALID(path, "invalid_type")
    ELSE LET keys == {k \in Range(shape) : k \in DOMAIN v.obj \/ fr[k].value.kind # "undefined"}
         IN  [status |-> IF \E k \in Range(shape) : fr[k].status = "aborted" THEN "aborted"
                         ELSE IF \E k \in Range(shape) : fr[k].status = "dirty" THEN "dirty"
                         ELSE "valid",
              value  |-> Obj([k \in keys |-> fr[k].value]),
              issues |-> ParseAllKeys(fr, shape)]

\* schema.safeParse(data): success with the parsed value, or the issues.
\* schema.parse(data) throws a ZodError holding the issues when ok is FALSE.
SafeParse(r) ==
    [ok     |-> r.status = "valid",
     value  |-> IF r.status = "valid" THEN r.value ELSE Undefined,
     issues |-> r.issues]

(***************************************************************************)
(* The login schemas.                                                       *)
(***************************************************************************)
LoginRequestShape == <<"message", "signature">>

LoginRequestField(k, v, path) ==
    Check(ZodString(v, path), Len(v.str) >= 1, path, "too_small")

LoginRequestSchema(v, path) ==
    ZodObject(v, path, LoginRequestShape,
              [k \in Range(LoginRequestShape) |->
                  LoginRequestField(k, Get(v, k), Append(path, k))])

LoginSuccessResponseShape == <<"token">>

LoginSuccessResponseSchema(v, path) ==
    ZodObject(v, path, LoginSuccessResponseShape,
              [k \in Range(LoginSuccessResponseShape) |->
                  ZodString(Get(v, k), Append(path, k))])

ErrorResponseShape == <<"error", "message", "details">>

ErrorResponseField(k, v, path) ==
    CASE k = "error" -> ZodString(v, path)
      [] k = "message" -> ZodOptional(v, ZodString(v, path))
      [] k = "details" -> ZodOptional(v, ZodUnknown(v))

ErrorResponseSchema(v, path) ==
    ZodObject(v, path, ErrorResponseShape,
              [k \in Range(ErrorResponseShape) |->
                  ErrorResponseField(k, Get(v, k), Append(path, k))])

(***************************************************************************)
(* Strings whose characters are read: tuples of one-character strings.      *)
(***************************************************************************)
Digits == {"0", "1", "2", "3", "4", "5", "6", "7", "8", "9"}

UpperLetters ==
    {"A", "B", "C", "D", "E", "F", "G", "H", "I", "J", "K", "L", "M",
     "N", "O", "P", "Q", "R", "S", "T", "U", "V", "W", "X", "Y", "Z"}

LowerLetters ==
    {"a", "b", "c", "d", "e", "f", "g", "h", "i", "j", "k", "l", "m",
     "n", "o", "p", "q", "r", "s", "t", "u", "v", "w", "x", "y", "z"}

HexDigits == Digits \cup {"a", "b", "c", "d", "e", "f", "A", "B", "C", "D", "E", "F"}

AllIn(s, from, to, chars) == \A i \in from..to : s[i] \in chars

\* /^\d+$/.test(s)
MatchesDigits(s) == Len(s) >= 1 /\ AllIn(s, 1, Len(s), Digits)

\* /^\d+(\.\d+)?$/.test(s)
MatchesDecimal(s) ==
    \/ MatchesDigits(s)
    \/ \E i \in 2..(Len(s) - 1) :
          /\ s[i] = "."
          /\ AllIn(s, 1, i - 1, Digits)
          /\ AllIn(s, i + 1, Len(s), Digits)

\* /^[A-Z0-9]+$/.test(s)
MatchesSymbol(s) == Len(s) >= 1 /\ AllIn(s, 1, Len(s), UpperLetters \cup Digits)

\* /^0x[a-fA-F0-9]{n}$/.test(s)
MatchesHex(s, n) ==
    /\ Len(s) = n + 2
    /\ s[1] = "0" /\ s[2] = "x"
    /\ AllIn(s, 3, Len(s), HexDigits)

\* zod's uuid pattern: hexadecimal groups of 8, 4, 4, 4 and 12 joined by "-".
MatchesUuid(s) ==
    /\ Len(s) = 36
    /\ \A i \in 1..36 : IF i \in {9, 14, 19, 24} THEN s[i] = "-" ELSE s[i] \in HexDigits

\* new URL(s) does not throw, for a text with no special scheme: a scheme of a
\* letter and then letters or digits, and a colon after it.
UrlParses(s) ==
    \E i \in 2..Len(s) :
        /\ s[i] = ":"
        /\ s[1] \in UpperLetters \cup LowerLetters
        /\ AllIn(s, 1, i - 1, UpperLetters \cup LowerLetters \cup Digits)

DigitValue(c) ==
    CASE c = "0" -> 0 [] c = "1" -> 1 [] c = "2" -> 2 [] c = "3" -> 3 [] c = "4" -> 4
      [] c = "5" -> 5 [] c = "6" -> 6 [] c = "7" -> 7 [] c = "8" -> 8 [] c = "9" -> 9

RECURSIVE DigitRun(_, _)

\* How many digits s holds in a row from position i on.
DigitRun(s, i) ==
    IF i <= Len(s) /\ s[i] \in Digits THEN 1 + DigitRun(s, i + 1) ELSE 0

RECURSIVE DigitsValue(_, _, _)

\* The number the n digits of s from position i on write.
DigitsValue(s, i, n) ==
    IF n = 0 THEN 0 ELSE 10 * DigitsValue(s, i, n - 1) + DigitValue(s[i + n - 1])

RECURSIVE SkipSpaces(_, _)

SkipSpaces(s, i) == IF i <= Len(s) /\ s[i] = " " THEN SkipSpaces(s, i + 1) ELSE i

\* Number.parseInt(s, 10): leading spaces and one sign are skipped, then the
\* longest run of digits is read; NaN when there is none.
ParseInt(s) ==
    LET b == SkipSpaces(s, 1)
        signed == b <= Len(s) /\ s[b] \in {"-", "+"}
        start == IF signed THEN b + 1 ELSE b
        n == DigitRun(s, start)
        mag == DigitsValue(s, start, n)
    IN  [nan |-> n = 0,
         val |-> IF signed /\ s[b] = "-" THEN 0 - mag ELSE mag]

\* Number.parseFloat(s), for texts without an exponent: sign, digits, and a
\* fraction when a dot follows; the value is (-1)^neg * mant / 10^scale.
ParseFloat(s) ==
    LET b == SkipSpaces(s, 1)
        signed == b <= Len(s) /\ s[b] \in {"-", "+"}
        start == IF signed THEN b + 1 ELSE b
        n == DigitRun(s, start)
        dot == start + n <= Len(s) /\ s[start + n] = "."
        f == IF dot THEN DigitRun(s, start + n + 1) ELSE 0
    IN  [nan   |-> n = 0 /\ f = 0,
         neg   |-> signed /\ s[b] = "-",
         mant  |-> DigitsValue(s, start, n) * (10 ^ f) + DigitsValue(s, start + n + 1, f),
         scale |-> f]

\* parsed >= 0, which NaN fails.
FloatAtLeastZero(x) == ~x.nan /\ (~x.neg \/ x.mant = 0)

(***************************************************************************)
(* RequestCoinCreationPayloadSchema.                                        *)
(***************************************************************************)
NameMin == 1

NameMax == 50

SymbolMin == 3

SymbolMax == 8

DescriptionMin == 1

DescriptionMax == 1000

RoyaltyMin == 0

RoyaltyMax == 1000

StepsMin == 1

\* .int(): Number.isInteger
IsInteger(v) == v.kind = "number" /\ v.frac = 0

\* value >= n and value <= n, for a number or Infinity
AtLeast(v, n) == v.kind = "infinity" \/ v.num >= n

AtMost(v, n) == v.kind # "infinity" /\ (v.num < n \/ (v.num = n /\ v.frac = 0))

\* As AtMost, with < in the place of <=.
Below(v, n) == v.kind # "infinity" /\ v.num < n

\* As WithinRoyaltyMax, with the bound itself left out.
BelowRoyaltyMax(v) == Below(v, RoyaltyMax)

\* The bound mint_royalty_bps and burn_royalty_bps are held to by .max(1000).
WithinRoyaltyMax(v) == AtMost(v, RoyaltyMax)

\* z.number().int().min(0).max(1000)
RoyaltyBps(v, path) ==
    Check(Check(Check(ZodNumber(v, path),
                      IsInteger(v), path, "invalid_type"),
                AtLeast(v, RoyaltyMin), path, "too_small"),
          WithinRoyaltyMax(v), path, "too_big")

\* As RangeRefinement, with >= in the place of >.
RangeRefinementAllowsZero(s) == MatchesDigits(s) /\ ParseInt(s).val >= 0

\* The refinement of range, line 138.
RangeRefinement(s) == MatchesDigits(s) /\ ParseInt(s).val > 0

\* The refinement of price, lines 146-147.
PriceRefinement(s) == MatchesDecimal(s) /\ FloatAtLeastZero(ParseFloat(s))

StepShape == <<"range", "price">>

StepField(k, v, path) ==
    CASE k = "range" -> Check(ZodString(v, path), RangeRefinement(v.str), path, "custom")
      [] k = "price" -> Check(ZodString(v, path), PriceRefinement(v.str), path, "custom")

\* One element of bonding_curve_steps.
StepSchema(v, path) ==
    ZodObject(v, path, StepShape,
              [k \in Range(StepShape) |-> StepField(k, Get(v, k), Append(path, k))])

RECURSIVE ConcatElementIssues(_, _)

ConcatElementIssues(er, i) ==
    IF i > Len(er) THEN <<>> ELSE er[i].issues \o ConcatElementIssues(er, i + 1)

\* z.array(element).min(n), given the results er of parsing the elements: a
\* list that is too short is reported and its elements are parsed all the same.
ZodArrayMin(v, path, n, er) ==
    IF v.kind # "array" THEN INVALID(path, "invalid_type")
    ELSE LET short == Len(v.obj) < n
         IN  [status |-> IF \E i \in DOMAIN er : er[i].status = "aborted" THEN "aborted"
                         ELSE IF short \/ \E i \in DOMAIN er : er[i].status = "dirty"
                              THEN "dirty"
                         ELSE "valid",
              value  |-> Arr([i \in DOMAIN er |-> er[i].value]),
              issues |-> (IF short THEN <<Issue(path, "too_small")>> ELSE <<>>)
                         \o ConcatElementIssues(er, 1)]

\* The elements of v when it is an array, none otherwise.
Elements(v) == IF v.kind = "array" THEN v.obj ELSE <<>>

BondingCurveSteps(v, path) ==
    ZodArrayMin(v, path, StepsMin,
                [i \in DOMAIN Elements(v) |->
                    StepSchema(Elements(v)[i], Append(path, ToString(i - 1)))])

RequestCoinCreationPayloadShape ==
    <<"name", "symbol", "logo_url", "description", "reserve_token_address",
      "mint_royalty_bps", "burn_royalty_bps", "bonding_curve_steps",
      "manual_verification_requested">>

RequestCoinCreationPayloadField(k, v, path) ==
    CASE k = "name" ->
            Check(Check(ZodString(v, path), Len(v.str) >= NameMin, path, "too_small"),
                  Len(v.str) <= NameMax, path, "too_big")
      [] k = "symbol" ->
            Check(Check(Check(ZodString(v, path),
                              Len(v.str) >= SymbolMin, path, "too_small"),
                        Len(v.str) <= SymbolMax, path, "too_big"),
                  MatchesSymbol(v.str), path, "invalid_string")
      [] k = "logo_url" ->
            ZodOptional(v, Check(ZodString(v, path), UrlParses(v.str), path,
                                 "invalid_string"))
      [] k = "description" ->
            Check(Check(ZodString(v, path),
                        Len(v.str) >= DescriptionMin, path, "too_small"),
                  Len(v.str) <= DescriptionMax, path, "too_big")
      [] k = "reserve_token_address" ->
            Check(ZodString(v, path), Len(v.str) >= 1, path, "too_small")
      [] k = "mint_royalty_bps" -> RoyaltyBps(v, path)
      [] k = "burn_royalty_bps" -> RoyaltyBps(v, path)
      [] k = "bonding_curve_steps" -> BondingCurveSteps(v, path)
      [] k = "manual_verification_requested" -> ZodBoolean(v, path)

RequestCoinCreationPayloadSchema(v, path) ==
    ZodObject(v, path, RequestCoinCreationPayloadShape,
              [k \in Range(RequestCoinCreationPayloadShape) |->
                  RequestCoinCreationPayloadField(k, Get(v, k), Append(path, k))])

(***************************************************************************)
(* ConfirmCoinCreationPayloadSchema.                                        *)
(***************************************************************************)
TransactionHashDigits == 64

ContractAddressDigits == 40

StatusValues == {"confirmed", "reverted"}

\* z.enum(values)
ZodEnum(v, path, values) ==
    IF v.kind # "string" THEN INVALID(path, "invalid_type")
    ELSE IF v.str \notin values THEN INVALID(path, "invalid_enum_value")
    ELSE OK(v)

ConfirmCoinCreationPayloadShape ==
    <<"coin_id", "transaction_hash", "status", "contract_address", "error_message">>

ConfirmCoinCreationPayloadField(k, v, path) ==
    CASE k = "coin_id" ->
            Check(ZodString(v, path), MatchesUuid(v.str), path, "invalid_string")
      [] k = "transaction_hash" ->
            Check(ZodString(v, path), MatchesHex(v.str, TransactionHashDigits), path,
                  "invalid_string")
      [] k = "status" -> ZodEnum(v, path, StatusValues)
      [] k = "contract_address" ->
            ZodOptional(v, Check(ZodString(v, path),
                                 MatchesHex(v.str, ContractAddressDigits), path,
                                 "invalid_string"))
      [] k = "error_message" -> ZodOptional(v, ZodString(v, path))

\* As CrossFieldIssues, without the second rule.
CrossFieldIssuesConfirmedOnly(data, path) ==
    IF Get(data, "status").str = "confirmed" /\ ~Truthy(Get(data, "contract_address"))
    THEN <<Issue(Append(path, "contract_address"), "custom")>> ELSE <<>>

\* The issues the superRefine callback adds for data, lines 189-204.
CrossFieldIssues(data, path) ==
    (IF Get(data, "status").str = "confirmed" /\ ~Truthy(Get(data, "contract_address"))
     THEN <<Issue(Append(path, "contract_address"), "custom")>> ELSE <<>>)
    \o
    (IF Get(data, "status").str = "reverted" /\ Truthy(Get(data, "contract_address"))
     THEN <<Issue(Append(path, "contract_address"), "custom")>> ELSE <<>>)

\* As SuperRefine, but the callback runs only on an object whose fields all
\* passed their checks.
SuperRefineOnValidOnly(inner, added) ==
    IF inner.status # "valid" \/ added = <<>> THEN inner
    ELSE [inner EXCEPT !.status = "dirty", !.issues = @ \o added]

\* .superRefine(callback) on a schema whose result is inner; added is what the
\* callback adds for inner's value.  The callback is skipped only when the
\* inner parse aborted; a dirty object is still handed to it.
SuperRefine(inner, added) ==
    IF inner.status = "aborted" \/ added = <<>> THEN inner
    ELSE [inner EXCEPT !.status = "dirty", !.issues = @ \o added]

ConfirmCoinCreationPayloadObject(v, path) ==
    ZodObject(v, path, ConfirmCoinCreationPayloadShape,
              [k \in Range(ConfirmCoinCreationPayloadShape) |->
                  ConfirmCoinCreationPayloadField(k, Get(v, k), Append(path, k))])

ConfirmCoinCreationPayloadSchema(v, path) ==
    SuperRefine(ConfirmCoinCreationPayloadObject(v, path),
                CrossFieldIssues(ConfirmCoinCreationPayloadObject(v, path).value, path))

(***************************************************************************)
(* The string schemas: z.string().transform(...).  The transform parses the *)
(* text and hands the value to the object schema's parse; whatever either   *)
(* throws is caught and reported as one custom issue of the string schema,  *)
(* at its own path.  p is JSON.parse's outcome, r the object schema's.      *)
(***************************************************************************)
Caught(ran) ==
    [ok |-> FALSE, value |-> Undefined, issues |-> <<Issue(<<>>, "custom")>>, ran |-> ran]

\* As ParseThenValidate, but the object schema's issues are handed on as they
\* are instead of being caught and reported as one issue.
ParseThenValidateAsIs(p, r) ==
    IF ~p.ok THEN Caught(FALSE)
    ELSE IF ~r.ok THEN [ok |-> FALSE, value |-> Undefined, issues |-> r.issues, ran |-> TRUE]
    ELSE [ok |-> TRUE, value |-> r.value, issues |-> <<>>, ran |-> TRUE]

\* As ParseThenValidate, but with JSON.parse outside the try block's reach: the
\* object schema is run on whatever there is.
ParseThenValidateUnguarded(p, r) ==
    IF ~r.ok THEN [ok |-> FALSE, value |-> Undefined, issues |-> r.issues, ran |-> TRUE]
    ELSE [ok |-> TRUE, value |-> r.value, issues |-> <<>>, ran |-> TRUE]

\* As ParseThenValidate, but the transform returns the value JSON.parse gave
\* instead of the object schema's output.
ParseThenValidateReturnsParsed(p, r) ==
    IF ~p.ok THEN Caught(FALSE)
    ELSE IF ~r.ok THEN Caught(TRUE)
    ELSE [ok |-> TRUE, value |-> p.val, issues |-> <<>>, ran |-> TRUE]

\* As ParseThenValidate, but the transform returns nothing on success.
ParseThenValidateNoReturn(p, r) ==
    IF ~p.ok THEN Caught(FALSE)
    ELSE IF ~r.ok THEN Caught(TRUE)
    ELSE [ok |-> TRUE, value |-> Undefined, issues |-> <<>>, ran |-> TRUE]

ParseThenValidate(p, r) ==
    IF ~p.ok THEN Caught(FALSE)
    ELSE IF ~r.ok THEN Caught(TRUE)
    ELSE [ok |-> TRUE, value |-> r.value, issues |-> <<>>, ran |-> TRUE]

LoginRequestStringSchema(t) ==
    ParseThenValidate(JSONParse(t), SafeParse(LoginRequestSchema(JSONParse(t).val, <<>>)))

LoginSuccessResponseStringSchema(t) ==
    ParseThenValidate(JSONParse(t),
                      SafeParse(LoginSuccessResponseSchema(JSONParse(t).val, <<>>)))

ErrorResponseStringSchema(t) ==
    ParseThenValidate(JSONParse(t), SafeParse(ErrorResponseSchema(JSONParse(t).val, <<>>)))

\* As createErrorResponse, but a key is set whenever its argument is given
\* (not undefined), truthy or not.
createErrorResponseIfDefined(error, message, details) ==
    Obj([k \in {"error"} \cup (IF message.kind # "undefined" THEN {"message"} ELSE {})
                         \cup (IF details.kind # "undefined" THEN {"details"} ELSE {}) |->
            CASE k = "error" -> error
              [] k = "message" -> message
              [] k = "details" -> details])

\* createErrorResponse(error, message, details)
createErrorResponse(error, message, details) ==
    Obj([k \in {"error"} \cup (IF Truthy(message) THEN {"message"} ELSE {})
                         \cup (IF Truthy(details) THEN {"details"} ELSE {}) |->
            CASE k = "error" -> error
              [] k = "message" -> message
              [] k = "details" -> details])

(***************************************************************************)
(* Inputs.  An object is built from one choice per key; the choice Absent   *)
(* leaves the key out.                                                      *)
(***************************************************************************)
Absent == Prim("absent", "", 0, 0)

MkObj(r) == Obj([k \in {j \in DOMAIN r : r[j].kind # "absent"} |-> r[k]])

\* Inputs that are no object at all.
NonObjects == {Undefined, Null, Str("hi"), Num(0)}

ExtraChoices == {Absent, Str("x")}

LoginFieldChoices == {Absent, Undefined, Str(""), Str("hi"), Num(0)}

LoginRequestObjects ==
    {MkObj([message |-> m, signature |-> s, extra |-> e]) :
        m \in LoginFieldChoices, s \in LoginFieldChoices, e \in ExtraChoices}

LoginSuccessResponseObjects ==
    {MkObj([token |-> t, extra |-> e]) : t \in LoginFieldChoices, e \in ExtraChoices}

DetailsChoices ==
    {Absent, Undefined, Null, NaN, Infinity, Num(0), Frac(0, 5), Str(""), Str("d"),
     Bool(FALSE), Obj(NoFields), Obj("inner" :> Undefined), Obj("inner" :> Num(1))}

ErrorResponseObjects ==
    {MkObj([error |-> e, message |-> m, details |-> d, extra |-> x]) :
        e \in {Absent, Str(""), Str("E"), Num(0)},
        m \in {Absent, Undefined, Str("m"), Num(0)},
        d \in DetailsChoices, x \in ExtraChoices}

TokenAlphabet == {LBrace, RBrace, Colon, Comma, Junk, Lit(Str("token")), Lit(Num(0))}

\* Every token sequence of at most MaxTextLen tokens.
ShortTexts == UNION {[1..n -> TokenAlphabet] : n \in 0..MaxTextLen}

ErrorArgs == {Str(""), Str("E")}

MessageArgs == {Undefined, Str(""), Str("m")}

DetailsArgs == (DetailsChoices \ {Absent}) \cup {Num(1), Bool(TRUE), Arr(<<>>)}

\* The character c, n times.
Rep(c, n) == [i \in 1..n |-> c]

Step(r, p) == MkObj([range |-> r, price |-> p])

ValidStep == Step(Str(<<"1", "0", "0">>), Str(<<"1", ".", "5">>))

\* A payload every field of which passes.
ValidRequest ==
    [name |-> Str(<<"C", "o", "i", "n">>),
     symbol |-> Str(<<"A", "B", "C", "1", "2", "3">>),
     logo_url |-> Absent,
     description |-> Str(<<"d">>),
     reserve_token_address |-> Str(<<"r">>),
     mint_royalty_bps |-> Num(0),
     burn_royalty_bps |-> Num(1000),
     bonding_curve_steps |-> Arr(<<ValidStep>>),
     manual_verification_requested |-> Bool(TRUE)]

\* A payload whose text fields all fail.
BadTextRequest ==
    [ValidRequest EXCEPT !.name = Str(<<>>), !.symbol = Str(<<"a", "b">>),
                         !.logo_url = Str(<<"a", "b">>), !.description = Num(0),
                         !.reserve_token_address = Absent,
                         !.manual_verification_requested = Null]

NameChoices == {Absent, Str(<<>>), Str(<<"C">>), Str(Rep("n", NameMax)), Str(Rep("n", NameMax + 1))}

SymbolChoices ==
    {Str(<<"A", "B", "C", "1", "2", "3">>), Str(<<"a", "b">>), Str(<<"a", "b", "c">>),
     Str(<<"A", "B">>), Str(Rep("A", SymbolMax)), Str(Rep("A", SymbolMax + 1)), Num(0)}

LogoUrlChoices == {Absent, Undefined, Str(<<"a", ":", "b">>), Str(<<"a", "b">>), Num(0)}

DescriptionChoices == {Str(<<>>), Str(<<"d">>), Str(Rep("d", DescriptionMax + 1))}

TextFieldRequests ==
    {[ValidRequest EXCEPT !.name = n, !.symbol = y, !.logo_url = l, !.description = d,
                          !.reserve_token_address = r,
                          !.manual_verification_requested = m] :
        n \in NameChoices, y \in SymbolChoices, l \in LogoUrlChoices,
        d \in DescriptionChoices, r \in {Str(<<>>), Str(<<"r">>)},
        m \in {Bool(FALSE), Absent}}
        \cup {[ValidRequest EXCEPT !.description = Str(Rep("d", DescriptionMax))]}

RoyaltyChoices ==
    {Absent, Null, NaN, Infinity, Str(<<"5">>), Num(-1), Num(0), Num(1), Num(999),
     Num(1000), Num(1001), Frac(-1, 5), Frac(0, 5), Frac(999, 5), Frac(1000, 5)}

RoyaltyRequests ==
    {[b EXCEPT !.mint_royalty_bps = m, !.burn_royalty_bps = u] :
        b \in {ValidRequest, BadTextRequest}, m \in RoyaltyChoices, u \in RoyaltyChoices}

StepChars == {"0", "1", ".", "a", "-"}

\* Every range or price text of at most MaxStrLen characters.
StepTexts == {Str(t) : t \in UNION {[1..n -> StepChars] : n \in 0..MaxStrLen}}

RangeSamples == {Str(<<"1", "0", "0">>), Str(<<"0">>), Str(<<"a", "b", "c">>), Num(1), Absent}

PriceSamples == {Str(<<"1", ".", "5">>), Str(<<"0">>), Str(<<"a">>), Num(1), Absent}

StepSamples ==
    {ValidStep, Step(Str(<<"0">>), Str(<<"1", ".", "5">>)),
     Step(Str(<<"1">>), Str(<<"1", ".">>)), Step(Absent, Str(<<"2">>)), Null}

StepsChoices ==
    {Arr(<<Step(r, p)>>) : r \in StepTexts, p \in PriceSamples}
        \cup {Arr(<<Step(r, p)>>) : r \in RangeSamples, p \in StepTexts}
        \cup {Arr(l) : l \in UNION {[1..n -> StepSamples] : n \in 0..MaxSteps}}
        \cup {Absent, Null, Obj(NoFields)}

StepsRequests ==
    {[b EXCEPT !.bonding_curve_steps = l] :
        b \in {ValidRequest, BadTextRequest}, l \in StepsChoices}

RequestCoinCreationPayloads ==
    {MkObj(r) : r \in TextFieldRequests \cup RoyaltyRequests \cup StepsRequests}

ValidUuid ==
    Str(Rep("a", 8) \o <<"-">> \o Rep("1", 4) \o <<"-">> \o Rep("F", 4) \o <<"-">>
        \o Rep("0", 4) \o <<"-">> \o Rep("c", 12))

Hex(c, n) == Str(<<"0", "x">> \o Rep(c, n))

ConfirmCoinCreationPayloads ==
    {MkObj([coin_id |-> c, transaction_hash |-> t, status |-> u, contract_address |-> a,
            error_message |-> e, extra |-> x]) :
        c \in {ValidUuid, Str(Rep("a", 36)), Num(0), Absent},
        t \in {Hex("a", TransactionHashDigits), Hex("a", TransactionHashDigits - 1),
               Hex("g", TransactionHashDigits), Absent},
        u \in {Str("confirmed"), Str("reverted"), Str("pending"), Num(0), Absent},
        a \in {Absent, Undefined, Null, Str(<<>>), Hex("B", ContractAddressDigits),
               Hex("B", ContractAddressDigits + 1), Hex("z", ContractAddressDigits)},
        e \in {Absent, Str("boom"), Num(0)},
        x \in ExtraChoices}

(***************************************************************************)
(* The state machine.  Every exported schema and helper is a pure function, *)
(* so a behaviour is one call: Init draws the call (which operation, on     *)
(* what input) and the operation's action computes what it returns.         *)
(***************************************************************************)
NoResult == [ok |-> TRUE, value |-> Undefined, issues |-> <<>>]

Call(name, v, o) == [op |-> name, input |-> v, origin |-> o]

\* The texts handed to a string schema: the short token sequences, and the
\* JSON.stringify of every object of objs (origin remembers the object).
TextCalls(name, objs) ==
    {Call(name, t, Undefined) : t \in ShortTexts}
        \cup {Call(name, JSONStringify(o), o) : o \in objs}

Calls ==
    {Call("LoginRequestSchema", v, Undefined) : v \in LoginRequestObjects \cup NonObjects}
        \cup {Call("LoginSuccessResponseSchema", v, Undefined) :
                v \in LoginSuccessResponseObjects \cup NonObjects}
        \cup {Call("ErrorResponseSchema", v, Undefined) :
                v \in ErrorResponseObjects \cup NonObjects}
        \cup {Call("RequestCoinCreationPayloadSchema", v, Undefined) :
                v \in RequestCoinCreationPayloads \cup NonObjects}
        \cup {Call("ConfirmCoinCreationPayloadSchema", v, Undefined) :
                v \in ConfirmCoinCreationPayloads \cup NonObjects}
        \cup TextCalls("LoginRequestStringSchema", LoginRequestObjects)
        \cup TextCalls("LoginSuccessResponseStringSchema", LoginSuccessResponseObjects)
        \cup TextCalls("ErrorResponseStringSchema", ErrorResponseObjects)
        \cup {Call("createErrorResponse", Arr(<<e, m, d>>), Undefined) :
                e \in ErrorArgs, m \in MessageArgs, d \in DetailsArgs}

Init ==
    /\ pc = "call"
    /\ \E c \in Calls : op = c.op /\ input = c.input /\ origin = c.origin
    /\ result = NoResult
    /\ ranObject = FALSE

\* An object schema's safeParse(input) returns.
Validated(name, r) ==
    /\ pc = "call" /\ op = name
    /\ pc' = "return"
    /\ result' = SafeParse(r)
    /\ ranObject' = TRUE
    /\ UNCHANGED <<op, input, origin>>

\* A string schema's safeParse(input) returns.
ValidatedText(name, r) ==
    /\ pc = "call" /\ op = name
    /\ pc' = "return"
    /\ result' = [ok |-> r.ok, value |-> r.value, issues |-> r.issues]
    /\ ranObject' = r.ran
    /\ UNCHANGED <<op, input, origin>>

ValidateLoginRequest ==
    Validated("LoginRequestSchema", LoginRequestSchema(input, <<>>))

ValidateLoginSuccessResponse ==
    Validated("LoginSuccessResponseSchema", LoginSuccessResponseSchema(input, <<>>))

ValidateErrorResponse ==
    Validated("ErrorResponseSchema", ErrorResponseSchema(input, <<>>))

ValidateRequestCoinCreationPayload ==
    Validated("RequestCoinCreationPayloadSchema",
              RequestCoinCreationPayloadSchema(input, <<>>))

ValidateConfirmCoinCreationPayload ==
    Validated("ConfirmCoinCreationPayloadSchema",
              ConfirmCoinCreationPayloadSchema(input, <<>>))

ValidateLoginRequestString ==
    ValidatedText("LoginRequestStringSchema", LoginRequestStringSchema(input))

ValidateLoginSuccessResponseString ==
    ValidatedText("LoginSuccessResponseStringSchema",
                  LoginSuccessResponseStringSchema(input))

ValidateErrorResponseString ==
    ValidatedText("ErrorResponseStringSchema", ErrorResponseStringSchema(input))

CreateErrorResponse ==
    /\ pc = "call" /\ op = "createErrorResponse"
    /\ pc' = "return"
    /\ result' = [ok     |-> TRUE,
                  value  |-> createErrorResponse(input.obj[1], input.obj[2], input.obj[3]),
                  issues |-> <<>>]
    /\ ranObject' = FALSE
    /\ UNCHANGED <<op, input, origin>>

Next ==
    \/ ValidateLoginRequest
    \/ ValidateLoginSuccessResponse
    \/ ValidateErrorResponse
    \/ ValidateRequestCoinCreationPayload
    \/ ValidateConfirmCoinCreationPayload
    \/ ValidateLoginRequestString
    \/ ValidateLoginSuccessResponseString
    \/ ValidateErrorResponseString
    \/ CreateErrorResponse

Spec == Init /\ [][Next]_vars

(***************************************************************************)
(* Definitions the properties share.                                        *)
(***************************************************************************)
StringOps ==
    {"LoginRequestStringSchema", "LoginSuccessResponseStringSchema",
     "ErrorResponseStringSchema"}

\* The object schema a string schema hands the parsed value to.
ObjectSchemaOf(name, v) ==
    CASE name = "LoginRequestStringSchema" -> SafeParse(LoginRequestSchema(v, <<>>))
      [] name = "LoginSuccessResponseStringSchema" ->
            SafeParse(LoginSuccessResponseSchema(v, <<>>))
      [] name = "ErrorResponseStringSchema" -> SafeParse(ErrorResponseSchema(v, <<>>))

DeclaredKeys(name) ==
    CASE name = "LoginRequestStringSchema" -> Range(LoginRequestShape)
      [] name = "LoginSuccessResponseStringSchema" -> Range(LoginSuccessResponseShape)
      [] name = "ErrorResponseStringSchema" -> Range(ErrorResponseShape)

ObjectOps ==
    {"LoginRequestSchema", "LoginSuccessResponseSchema", "ErrorResponseSchema",
     "RequestCoinCreationPayloadSchema", "ConfirmCoinCreationPayloadSchema"}

\* A call of the named object schema on an object has returned.
ReturnedFrom(name) == pc = "return" /\ op = name /\ input.kind = "object"

\* Some failure lies at or below the top-level key k.
HasFailureUnder(issues, k) ==
    \E i \in DOMAIN issues : Len(issues[i].path) >= 1 /\ issues[i].path[1] = k

\* Some failure lies at or below the path p.
HasFailureBelow(issues, p) ==
    \E i \in DOMAIN issues :
        Len(issues[i].path) >= Len(p) /\ SubSeq(issues[i].path, 1, Len(p)) = p

IsText(v) == v.kind = "string"

LenWithin(v, lo, hi) == IsText(v) /\ Len(v.str) >= lo /\ Len(v.str) <= hi

\* A royalty as the specification allows it: an integer from 0 to 1000.
RoyaltyGood(v) == v.kind = "number" /\ v.frac = 0 /\ 0 <= v.num /\ v.num <= 1000

\* A range as the specification allows it: decimal digits only, not all zero.
RangeGood(v) ==
    /\ IsText(v) /\ Len(v.str) >= 1
    /\ \A i \in 1..Len(v.str) : v.str[i] \in Digits
    /\ \E i \in 1..Len(v.str) : v.str[i] # "0"

\* A price as the specification allows it: digits, and at most one dot, which
\* has a digit before it and a digit after it.
PriceGood(v) ==
    /\ IsText(v) /\ Len(v.str) >= 1
    /\ \A i \in 1..Len(v.str) : v.str[i] \in Digits \cup {"."}
    /\ Cardinality({i \in 1..Len(v.str) : v.str[i] = "."}) <= 1
    /\ v.str[1] # "." /\ v.str[Len(v.str)] # "."

StepGood(e) == e.kind = "object" /\ RangeGood(Get(e, "range")) /\ PriceGood(Get(e, "price"))

StepsGood(v) ==
    v.kind = "array" /\ Len(v.obj) >= 1 /\ \A i \in 1..Len(v.obj) : StepGood(v.obj[i])

Returned == pc = "return"

Paths(issues) == [i \in DOMAIN issues |-> issues[i].path]

RootPath == <<>>

RECURSIVE JSONCarries(_)

\* v is a value JSON text carries unchanged: no undefined, NaN or Infinity in it.
JSONCarries(v) ==
    /\ v.kind \notin {"undefined", "nan", "infinity"}
    /\ v.kind = "object" => \A k \in DOMAIN v.obj : JSONCarries(v.obj[k])

\* The text parsed as JSON but the object schema rejected the value.
ParsedButRejected ==
    /\ Returned /\ op \in StringOps
    /\ JSONParse(input).ok
    /\ ~ObjectSchemaOf(op, JSONParse(input).val).ok

(***************************************************************************)
(* C1 (as claimed): when the text parses as JSON and the object schema      *)
(* rejects the value, the string schema reports exactly the object schema's *)
(* failure list: as many failures, at the same paths.                       *)
(***************************************************************************)
C1_FailuresReturnedAsIs ==
    ParsedButRejected =>
        Paths(result.issues) = Paths(ObjectSchemaOf(op, JSONParse(input).val).issues)

(***************************************************************************)
(* C1 (amended): when the text parses as JSON and the object schema rejects *)
(* the value, the string schema fails with exactly one failure, a custom    *)
(* one at the root path, however many failures the object schema found and  *)
(* whatever their paths.                                                     *)
(***************************************************************************)
C1_FailuresWrappedInOne ==
    ParsedButRejected =>
        /\ ~result.ok
        /\ result.issues = <<Issue(RootPath, "custom")>>

\* A JSON login request with both fields empty: the object schema finds two
\* failures, at message and at signature.
C1_Witness ==
    /\ ParsedButRejected /\ op = "LoginRequestStringSchema"
    /\ Paths(ObjectSchemaOf(op, JSONParse(input).val).issues)
          = << <<"message">>, <<"signature">> >>

(***************************************************************************)
(* C2: a text that is not JSON makes every string schema fail with exactly  *)
(* one failure, at the root path, and the object schema is never run.       *)
(***************************************************************************)
C2_NonJsonOneRootFailure ==
    (Returned /\ op \in StringOps /\ ~JSONParse(input).ok) =>
        /\ ~result.ok
        /\ Len(result.issues) = 1
        /\ result.issues[1].path = RootPath
        /\ ~ranObject

\* An object text cut short after its opening brace and key.
C2_Witness ==
    /\ Returned /\ op = "ErrorResponseStringSchema"
    /\ input = <<LBrace, Lit(Str("token")), Colon>>
    /\ ~result.ok

(***************************************************************************)
(* C3 (as claimed): for every object O an object schema accepts, the string *)
(* schema applied to JSON.stringify(O) succeeds with a value equal to O.    *)
(***************************************************************************)
C3_RoundTripAnyAccepted ==
    (Returned /\ op \in StringOps /\ origin.kind = "object"
        /\ ObjectSchemaOf(op, origin).ok) =>
        (result.ok /\ result.value = origin)

(***************************************************************************)
(* C3 (amended): for every object O an object schema accepts that carries   *)
(* only keys the schema declares and only values JSON carries unchanged,    *)
(* the string schema applied to JSON.stringify(O) succeeds with a value     *)
(* equal to O.                                                              *)
(***************************************************************************)
C3_RoundTripDeclaredJsonValues ==
    (Returned /\ op \in StringOps /\ origin.kind = "object"
        /\ ObjectSchemaOf(op, origin).ok
        /\ DOMAIN origin.obj \subseteq DeclaredKeys(op)
        /\ JSONCarries(origin)) =>
        (result.ok /\ result.value = origin)

\* An error response with all three declared keys, details a nested object.
C3_Witness ==
    /\ Returned /\ op = "ErrorResponseStringSchema"
    /\ origin = Obj([error |-> Str("E"), message |-> Str("m"),
                     details |-> Obj("inner" :> Num(1))])
    /\ result.ok /\ result.value = origin

(***************************************************************************)
(* C6: object schemas are not fail-fast.  Every declared field of an object *)
(* input that violates its constraint has a failure at its path; a login    *)
(* request's failures are exactly one per empty (or missing, or non-string) *)
(* field, at message, at signature, or at both, in that order.              *)
(***************************************************************************)
LoginFieldBad(v) == ~(v.kind = "string" /\ v.str # "")

ErrorFieldBad(k, v) ==
    CASE k = "error" -> v.kind # "string"
      [] k = "message" -> v.kind \notin {"undefined", "string"}
      [] k = "details" -> FALSE

HasFailureAt(issues, k) == \E i \in DOMAIN issues : issues[i].path = <<k>>

\* A failure of the field k itself, not of the cross-field rule.
HasFieldFailureAt(issues, k) ==
    \E i \in DOMAIN issues : issues[i].path = <<k>> /\ issues[i].code # "custom"

RequestFieldBad(k, v) ==
    CASE k = "name" -> ~LenWithin(v, 1, 50)
      [] k = "symbol" ->
            ~(LenWithin(v, 3, 8)
                /\ \A i \in 1..Len(v.str) : v.str[i] \in UpperLetters \cup Digits)
      [] k = "logo_url" -> ~(v.kind = "undefined" \/ (IsText(v) /\ UrlParses(v.str)))
      [] k = "description" -> ~LenWithin(v, 1, 1000)
      [] k = "reserve_token_address" -> ~(IsText(v) /\ Len(v.str) >= 1)
      [] k = "mint_royalty_bps" -> ~RoyaltyGood(v)
      [] k = "burn_royalty_bps" -> ~RoyaltyGood(v)
      [] k = "bonding_curve_steps" -> ~StepsGood(v)
      [] k = "manual_verification_requested" -> v.kind # "boolean"

ConfirmFieldBad(k, v) ==
    CASE k = "coin_id" -> ~(IsText(v) /\ MatchesUuid(v.str))
      [] k = "transaction_hash" -> ~(IsText(v) /\ MatchesHex(v.str, 64))
      [] k = "status" -> ~(IsText(v) /\ v.str \in {"confirmed", "reverted"})
      [] k = "contract_address" ->
            ~(v.kind = "undefined" \/ (IsText(v) /\ MatchesHex(v.str, 40)))
      [] k = "error_message" -> v.kind \notin {"undefined", "string"}

C6_AllOffendingFieldsReported ==
    (Returned /\ op \in ObjectOps /\ input.kind = "object") =>
        /\ op = "LoginRequestSchema" =>
              Paths(result.issues) =
                  (IF LoginFieldBad(Get(input, "message")) THEN << <<"message">> >> ELSE <<>>)
                  \o (IF LoginFieldBad(Get(input, "signature"))
                      THEN << <<"signature">> >> ELSE <<>>)
        /\ op = "LoginSuccessResponseSchema" =>
              (Get(input, "token").kind # "string" <=> HasFailureAt(result.issues, "token"))
        /\ op = "ErrorResponseSchema" =>
              \A k \in Range(ErrorResponseShape) :
                  ErrorFieldBad(k, Get(input, k)) <=> HasFailureAt(result.issues, k)
        /\ op = "RequestCoinCreationPayloadSchema" =>
              \A k \in Range(RequestCoinCreationPayloadShape) :
                  RequestFieldBad(k, Get(input, k)) <=> HasFailureUnder(result.issues, k)
        /\ op = "ConfirmCoinCreationPayloadSchema" =>
              \A k \in Range(ConfirmCoinCreationPayloadShape) :
                  ConfirmFieldBad(k, Get(input, k)) <=> HasFieldFailureAt(result.issues, k)

\* Both fields of a login request empty: two failures.
C6_Witness ==
    /\ Returned /\ op = "LoginRequestSchema"
    /\ input = Obj([message |-> Str(""), signature |-> Str("")])
    /\ Len(result.issues) = 2

(***************************************************************************)
(* C7: createErrorResponse(error, message, details) returns an object with  *)
(* error set to its first argument, with message exactly when the message   *)
(* argument is truthy (a non-empty string), with details exactly when the   *)
(* details argument is truthy (none of undefined, null, NaN, 0, "", false), *)
(* and with no other key.                                                   *)
(***************************************************************************)
FalsyValues == {Undefined, Null, NaN, Num(0), Str(""), Bool(FALSE)}

C7_KeysFollowTruthiness ==
    (Returned /\ op = "createErrorResponse") =>
        LET error == input.obj[1]
            message == input.obj[2]
            details == input.obj[3]
            out == result.value
        IN  /\ out.kind = "object"
            /\ DOMAIN out.obj \subseteq {"error", "message", "details"}
            /\ "error" \in DOMAIN out.obj /\ out.obj["error"] = error
            /\ "message" \in DOMAIN out.obj <=> message \notin FalsyValues
            /\ "details" \in DOMAIN out.obj <=> details \notin FalsyValues
            /\ "message" \in DOMAIN out.obj => out.obj["message"] = message
            /\ "details" \in DOMAIN out.obj => out.obj["details"] = details

\* createErrorResponse("E", "", 0) returns {error: "E"}.
C7_Witness ==
    /\ Returned /\ op = "createErrorResponse"
    /\ input = Arr(<<Str("E"), Str(""), Num(0)>>)
    /\ result.value = Obj([error |-> Str("E")])

(***************************************************************************)
(* C10: a string schema accepts a text exactly when the text parses as JSON *)
(* and the object schema accepts the parsed value; its result is then the   *)
(* object schema's result; on every rejected text it reports exactly one    *)
(* failure, at the root path.                                               *)
(***************************************************************************)
C10_StringSchemaIsParseThenObjectSchema ==
    (Returned /\ op \in StringOps) =>
        LET p == JSONParse(input)
        IN  /\ result.ok <=> (p.ok /\ ObjectSchemaOf(op, p.val).ok)
            /\ result.ok => result.value = ObjectSchemaOf(op, p.val).value
            /\ ~result.ok =>
                  (Len(result.issues) = 1 /\ result.issues[1].path = RootPath)

\* An accepted text whose object carries a key the schema does not declare.
C10_Witness ==
    /\ Returned /\ op = "LoginRequestStringSchema"
    /\ result.ok
    /\ Has(JSONParse(input).val, "extra")
    /\ ~Has(result.value, "extra")

(***************************************************************************)
(* C4: for a confirmation whose fields are each valid, validation succeeds  *)
(* exactly when status is "confirmed" and contract_address is present, or   *)
(* status is "reverted" and contract_address is absent; otherwise it fails  *)
(* with exactly one failure, at contract_address.                           *)
(***************************************************************************)
ConfirmFieldsAllValid(v) ==
    /\ IsText(Get(v, "coin_id")) /\ MatchesUuid(Get(v, "coin_id").str)
    /\ IsText(Get(v, "transaction_hash"))
    /\ MatchesHex(Get(v, "transaction_hash").str, 64)
    /\ IsText(Get(v, "status")) /\ Get(v, "status").str \in {"confirmed", "reverted"}
    /\ \/ Get(v, "contract_address").kind = "undefined"
       \/ IsText(Get(v, "contract_address")) /\ MatchesHex(Get(v, "contract_address").str, 40)
    /\ Get(v, "error_message").kind \in {"undefined", "string"}

C4_CrossFieldRule ==
    (ReturnedFrom("ConfirmCoinCreationPayloadSchema") /\ ConfirmFieldsAllValid(input)) =>
        LET present == IsText(Get(input, "contract_address"))
            confirmed == Get(input, "status").str = "confirmed"
            paired == (confirmed /\ present) \/ (~confirmed /\ ~present)
        IN  /\ result.ok <=> paired
            /\ ~paired => Paths(result.issues) = << <<"contract_address">> >>

\* A reverted transaction that names a contract address.
C4_Witness ==
    /\ ReturnedFrom("ConfirmCoinCreationPayloadSchema") /\ ConfirmFieldsAllValid(input)
    /\ Get(input, "status").str = "reverted"
    /\ IsText(Get(input, "contract_address"))
    /\ ~result.ok

(***************************************************************************)
(* C5 (as claimed): whenever a field of a confirmation fails its own        *)
(* constraint, the failure list holds no cross-field failure.               *)
(***************************************************************************)
SomeConfirmFieldFails(v) ==
    \E k \in Range(ConfirmCoinCreationPayloadShape) :
        ConfirmCoinCreationPayloadField(k, Get(v, k), <<k>>).status # "valid"

HasCrossFieldFailure(issues) == \E i \in DOMAIN issues : issues[i].code = "custom"

C5_NoCrossFieldAfterFieldFailure ==
    (ReturnedFrom("ConfirmCoinCreationPayloadSchema") /\ SomeConfirmFieldFails(input)) =>
        ~HasCrossFieldFailure(result.issues)

(***************************************************************************)
(* C5 (amended): the cross-field rule is skipped only when a field fails on *)
(* its type: a required field missing or not a string, status outside its   *)
(* two values, an optional field given a value that is no string.  When     *)
(* fields fail only a pattern or UUID check the rule is still evaluated,    *)
(* and an invalid status/contract_address pairing adds its failure, at      *)
(* contract_address, to the field failures.                                 *)
(***************************************************************************)
ConfirmTypeFailure(v) ==
    \/ ~IsText(Get(v, "coin_id"))
    \/ ~IsText(Get(v, "transaction_hash"))
    \/ ~(IsText(Get(v, "status")) /\ Get(v, "status").str \in {"confirmed", "reverted"})
    \/ Get(v, "contract_address").kind \notin {"undefined", "string"}
    \/ Get(v, "error_message").kind \notin {"undefined", "string"}

\* contract_address holds a non-empty string.
AddressGiven(v) == IsText(Get(v, "contract_address")) /\ Len(Get(v, "contract_address").str) > 0

PairingInvalid(v) ==
    \/ Get(v, "status").str = "confirmed" /\ ~AddressGiven(v)
    \/ Get(v, "status").str = "reverted" /\ AddressGiven(v)

C5_CrossFieldSkippedOnlyOnTypeFailure ==
    ReturnedFrom("ConfirmCoinCreationPayloadSchema") =>
        /\ HasCrossFieldFailure(result.issues)
              <=> (~ConfirmTypeFailure(input) /\ PairingInvalid(input))
        /\ \A i \in DOMAIN result.issues :
              result.issues[i].code = "custom" =>
                  result.issues[i].path = <<"contract_address">>

\* A confirmed transaction with a malformed hash and no contract address: the
\* hash's own failure and the cross-field failure are both reported.
C5_Witness ==
    /\ ReturnedFrom("ConfirmCoinCreationPayloadSchema")
    /\ Get(input, "status").str = "confirmed"
    /\ ~Has(input, "contract_address")
    /\ result.issues = <<Issue(<<"transaction_hash">>, "invalid_string"),
                         Issue(<<"contract_address">>, "custom")>>

(***************************************************************************)
(* C8: a bonding-curve step is accepted exactly when its range is a string  *)
(* of decimal digits whose value is greater than 0 and its price a string   *)
(* of digits, optionally followed by a dot and at least one digit; the list *)
(* is accepted only if it holds at least one step and every step is         *)
(* accepted.                                                                *)
(***************************************************************************)
C8_BondingCurveSteps ==
    ReturnedFrom("RequestCoinCreationPayloadSchema") =>
        LET steps == Get(input, "bonding_curve_steps")
            at(i) == <<"bonding_curve_steps", ToString(i - 1)>>
        IN  /\ steps.kind = "array" =>
                  \A i \in 1..Len(steps.obj) :
                      /\ ~HasFailureBelow(result.issues, at(i)) <=> StepGood(steps.obj[i])
                      /\ steps.obj[i].kind = "object" =>
                            /\ HasFailureBelow(result.issues, Append(at(i), "range"))
                                  <=> ~RangeGood(Get(steps.obj[i], "range"))
                            /\ HasFailureBelow(result.issues, Append(at(i), "price"))
                                  <=> ~PriceGood(Get(steps.obj[i], "price"))
            /\ ~HasFailureUnder(result.issues, "bonding_curve_steps") => StepsGood(steps)
            /\ result.ok => StepsGood(steps)

\* Two steps, the second with range "0": one failure, at the second step's range.
C8_Witness ==
    /\ ReturnedFrom("RequestCoinCreationPayloadSchema")
    /\ Get(input, "bonding_curve_steps")
          = Arr(<<ValidStep, Step(Str(<<"0">>), Str(<<"1", ".", "5">>))>>)
    /\ Paths(result.issues) = << <<"bonding_curve_steps", "1", "range">> >>

(***************************************************************************)
(* C9: mint_royalty_bps and burn_royalty_bps are each accepted exactly when *)
(* the value is an integer from 0 to 1000; any other value has a failure at *)
(* the field's path.                                                        *)
(***************************************************************************)
C9_RoyaltyRange ==
    ReturnedFrom("RequestCoinCreationPayloadSchema") =>
        \A k \in {"mint_royalty_bps", "burn_royalty_bps"} :
            /\ HasFailureAt(result.issues, k) <=> ~RoyaltyGood(Get(input, k))
            /\ result.ok => RoyaltyGood(Get(input, k))

\* mint at the upper boundary passes, burn one above it fails.
C9_Witness ==
    /\ ReturnedFrom("RequestCoinCreationPayloadSchema")
    /\ Get(input, "mint_royalty_bps") = Num(1000)
    /\ Get(input, "burn_royalty_bps") = Num(1001)
    /\ Paths(result.issues) = << <<"burn_royalty_bps">> >>

====
